---- MODULE Spec2Model ----
(***************************************************************************)
(* PPI Network Analyzer (LAB3-TAY_CHING_XIAN.py): a Streamlit script that  *)
(* fetches protein-protein interactions from BioGRID or STRING, builds an  *)
(* undirected graph with networkx, computes centralities and ranks them.   *)
(*                                                                         *)
(* Three specifications share the variables below:                         *)
(*   Spec      the script as the user drives it: the widgets, and the      *)
(*             "Analyze Network" button handler run to completion;         *)
(*   SpecBuild generate_network and nx.degree_centrality applied to a      *)
(*             bounded DataFrame of interaction rows;                      *)
(*   SpecRank  the body of the centrality display loop applied to a        *)
(*             bounded score dictionary.                                   *)
(*                                                                         *)
(* Python values are encoded as follows.  A dict with string keys is a     *)
(* function whose DOMAIN is its key set.  A DataFrame is a record of its   *)
(* column set and its sequence of rows.  A dict of scores is the sequence  *)
(* of its <<key, score>> items in insertion order.  A score is a fraction  *)
(* <<numerator, denominator>> with a positive denominator.                 *)
(***************************************************************************)
EXTENDS Integers, Sequences, FiniteSets, TLC

VARIABLES
    protein_id,        \* st.text_input "Enter Protein ID"
    database,          \* st.selectbox "Select Database"
    access_key,        \* st.text_input "BioGRID Access Key" ("" while not rendered)
    session_state,     \* st.session_state
    st_messages,       \* st.error / st.warning / st.success calls of the last run
    http_log,          \* requests.get calls of the last run
    response,          \* what requests.get did in the last run (NoResponse: not called)
    df_ppi,            \* the DataFrame of the last run
    network,           \* the nx.Graph of the last run
    centralities_list, \* get_centralities' result (degree centrality; see get_centralities)
    top_5_nodes,       \* the hub list of the last run
    cent_dict,         \* SpecRank: the score dictionary of one loop iteration
    loop_i,            \* SpecRank: the loop index i of that iteration
    sorted_cent,       \* the ranked list displayed (degree measure in Spec)
    hub_lines,         \* the "Top 5 Hub Proteins" lines written when i = 0
    uncaught,          \* the exception that left the script, or "none"
    call_log,          \* the functions of the script the last run called, in order
    pc                 \* "idle": nothing rendered below the button; "done": a run's output

vars == <<protein_id, database, access_key, session_state, st_messages, http_log, response,
          df_ppi, network, centralities_list, top_5_nodes, cent_dict, loop_i,
          sorted_cent, hub_lines, uncaught, call_log, pc>>

----------------------------------------------------------------------------
(* Bounds of the model *)

\* longest provider response body (records) the button handler is given
MaxRecords == 2
\* longest DataFrame given to generate_network in SpecBuild
MaxRows == 3
\* largest score dictionary given to the display loop in SpecRank
MaxRankNodes == 11

\* protein symbols a provider may return; one is lower case
Symbols == {"TP53", "tp53"}
\* protein names in SpecBuild's DataFrames
Proteins == {"TP53", "MDM2", "BRCA1"}
\* protein identifiers the user may type
ProteinIds == {"", "TP53"}
\* access keys the user may type
AccessKeys == {"", "key"}
\* HTTP statuses of a provider other than 200
ErrorStatuses == {404, 500}
\* scores of SpecRank's dictionaries
ScoreValues == {0, 1}

----------------------------------------------------------------------------
(* Python helpers *)

\* the last element index of a slice seq[:n]
Min(a, b) == IF a <= b THEN a ELSE b

\* seq[:n]
Slice(seq, n) == SubSeq(seq, 1, Min(n, Len(seq)))

\* the set of elements of a sequence
Range(seq) == {seq[i] : i \in 1..Len(seq)}

\* all sequences over S of length at most n
SeqUpTo(S, n) == UNION {[1..k -> S] : k \in 0..n}

\* pd.DataFrame(): no columns, no rows
EmptyDataFrame == [columns |-> {}, rows |-> <<>>]

\* pd.DataFrame(list of dicts): the columns are the dicts' keys
DataFrame(rows) ==
    IF rows = <<>> THEN EmptyDataFrame
    ELSE [columns |-> DOMAIN rows[1], rows |-> rows]

\* nx.Graph(): nodes in insertion order, adj[u][v] the edge's attribute dict
\* (a set of <<key, value>> pairs)
EmptyGraph == [nodes |-> <<>>, adj |-> [n \in {} |-> {}]]

NodeSet(G) == Range(G.nodes)

\* G.number_of_nodes()
number_of_nodes(G) == Len(G.nodes)

\* d[k] = val on a dict d
Put(d, k, val) == [x \in DOMAIN d \cup {k} |-> IF x = k THEN val ELSE d[x]]

\* add_edge storing the edge under its first endpoint only, as a directed
\* graph would
add_edge_directed(G, u, v, attr) ==
    LET n1 == IF u \in NodeSet(G) THEN G.nodes ELSE Append(G.nodes, u)
        n2 == IF v \in Range(n1) THEN n1 ELSE Append(n1, v)
        a0 == [x \in Range(n2) |->
                 IF x \in DOMAIN G.adj THEN G.adj[x] ELSE [y \in {} |-> {}]]
        datadict == (IF v \in DOMAIN a0[u] THEN a0[u][v] ELSE {}) \cup attr
        a1 == [a0 EXCEPT ![u] = Put(a0[u], v, datadict)]
    IN  [nodes |-> n2, adj |-> a1]

\* nx.Graph.add_edge(u, v, **attr): both endpoints become nodes (in insertion
\* order), and adj[u][v] and adj[v][u] hold the one attribute dict of the edge
add_edge(G, u, v, attr) ==
    LET n1 == IF u \in NodeSet(G) THEN G.nodes ELSE Append(G.nodes, u)
        n2 == IF v \in Range(n1) THEN n1 ELSE Append(n1, v)
        a0 == [x \in Range(n2) |->
                 IF x \in DOMAIN G.adj THEN G.adj[x] ELSE [y \in {} |-> {}]]
        datadict == (IF v \in DOMAIN a0[u] THEN a0[u][v] ELSE {}) \cup attr
        a1 == [a0 EXCEPT ![u] = Put(a0[u], v, datadict)]
        a2 == [a1 EXCEPT ![v] = Put(a1[v], u, datadict)]
    IN  [nodes |-> n2, adj |-> a2]

\* the loop of generate_network from row i on
RECURSIVE add_rows(_, _, _)
add_rows(G, rows, i) ==
    IF i > Len(rows) THEN G
    ELSE add_rows(add_edge(G, rows[i]["Protein_A"], rows[i]["Protein_B"], {}),
                  rows, i + 1)

\* generate_network testing for a column the fetchers never write
generate_network_wrong_column(dataframe) ==
    IF "Protein_A" \in dataframe.columns /\ "Protein_2" \in dataframe.columns
    THEN add_rows(EmptyGraph, dataframe.rows, 1)
    ELSE EmptyGraph

generate_network(dataframe) ==
    IF "Protein_A" \in dataframe.columns /\ "Protein_B" \in dataframe.columns
    THEN add_rows(EmptyGraph, dataframe.rows, 1)
    ELSE EmptyGraph

\* a degree that counts a self-loop once
degree_self_loop_once(G, n) == Cardinality(DOMAIN G.adj[n])

\* G.degree(n): the neighbours of n, a self-loop counted twice
degree(G, n) ==
    Cardinality(DOMAIN G.adj[n]) + (IF n \in DOMAIN G.adj[n] THEN 1 ELSE 0)

\* the sum of a function's values over the set S of its arguments
RECURSIVE SumOver(_, _)
SumOver(f, S) ==
    IF S = {} THEN 0
    ELSE LET x == CHOOSE y \in S : TRUE IN f[x] + SumOver(f, S \ {x})

\* G.number_of_edges(): half the sum of the degrees
number_of_edges(G) ==
    SumOver([n \in NodeSet(G) |-> degree(G, n)], NodeSet(G)) \div 2

\* nx.degree_centrality(G): degree / (N - 1), and 1 for every node when N <= 1
degree_centrality(G) ==
    IF number_of_nodes(G) <= 1
    THEN [i \in 1..Len(G.nodes) |-> <<G.nodes[i], <<1, 1>> >>]
    ELSE [i \in 1..Len(G.nodes) |->
            <<G.nodes[i], <<degree(G, G.nodes[i]), number_of_nodes(G) - 1>> >>]

\* outcomes of nx.eigenvector_centrality(G, max_iter=1000): the power iteration
\* converges, or the library raises PowerIterationFailedConvergence.  Which one
\* depends on the graph's spectrum and is an input of the model.
EigenOutcomes == {"converged", "PowerIterationFailedConvergence"}

\* get_centralities: the five library calls in order.  The degree dictionary is
\* computed; the betweenness, closeness, eigenvector and PageRank dictionaries
\* are library values over the same nodes that no step of the handler branches
\* on, and are kept out of the state (SpecRank ranks arbitrary dictionaries).
\* An exception of the eigenvector call leaves the function.
get_centralities(network_graph, eigen) ==
    IF eigen = "converged"
    THEN [raised |-> "none", value |-> <<degree_centrality(network_graph)>>]
    ELSE [raised |-> eigen, value |-> <<>>]

----------------------------------------------------------------------------
(* Ranking *)

\* the display loop shows the first 10 entries, the hub list the first 5
TopDisplay == 10
TopHubs == 5

\* score a >= score b, on fractions
ScoreGeq(a, b) == a[1] * b[2] >= b[1] * a[2]

\* insert item into a list sorted descending, after every entry whose score is
\* at least the item's (the sort is stable)
RECURSIVE InsertDesc(_, _)
InsertDesc(sorted, item) ==
    IF sorted = <<>> THEN <<item>>
    ELSE IF ScoreGeq(Head(sorted)[2], item[2])
         THEN <<Head(sorted)>> \o InsertDesc(Tail(sorted), item)
         ELSE <<item>> \o sorted

\* sorted(items, key=lambda x: x[1], reverse=True)
RECURSIVE SortedDesc(_)
SortedDesc(items) ==
    IF items = <<>> THEN <<>>
    ELSE InsertDesc(SortedDesc(SubSeq(items, 1, Len(items) - 1)), items[Len(items)])

\* the sort without reverse=True: ascending by score, stable
RECURSIVE InsertAsc(_, _)
InsertAsc(sorted, item) ==
    IF sorted = <<>> THEN <<item>>
    ELSE IF ScoreGeq(item[2], Head(sorted)[2])
         THEN <<Head(sorted)>> \o InsertAsc(Tail(sorted), item)
         ELSE <<item>> \o sorted

RECURSIVE SortedAsc(_)
SortedAsc(items) ==
    IF items = <<>> THEN <<>>
    ELSE InsertAsc(SortedAsc(SubSeq(items, 1, Len(items) - 1)), items[Len(items)])

ranked_top10_ascending(items) == Slice(SortedAsc(items), TopDisplay)

\* sorted(cent_dict.items(), key=lambda x: x[1], reverse=True)[:10]
ranked_top10(items) == Slice(SortedDesc(items), TopDisplay)

\* sorted(degree_cent.items(), key=lambda x: x[1], reverse=True)[:5]
ranked_top5(items) == Slice(SortedDesc(items), TopHubs)

----------------------------------------------------------------------------
(* Providers: what requests.get may answer *)

\* one value of BioGRID's JSON object: both symbols, with or without the
\* experimental system
BioGridValues ==
    {[OFFICIAL_SYMBOL_A |-> a, OFFICIAL_SYMBOL_B |-> b, EXPERIMENTAL_SYSTEM |-> e] :
        a \in Symbols, b \in Symbols, e \in {"Two-hybrid"}}
    \cup {[OFFICIAL_SYMBOL_A |-> a, OFFICIAL_SYMBOL_B |-> b] :
            a \in Symbols, b \in Symbols}

\* STRING's combined scores, in thousandths
StringScores == {999}

\* one element of STRING's JSON array
StringValues ==
    {[preferredName_A |-> a, preferredName_B |-> b, score |-> sc] :
        a \in Symbols, b \in Symbols, sc \in StringScores}

ProviderValues(db) == IF db = "BioGRID" THEN BioGridValues ELSE StringValues

\* what one requests.get may do: raise, answer another status, answer 200 with
\* a body that is not JSON, or answer 200 with a JSON body of records
Responses(db) ==
    {[transport |-> "ConnectionError", status |-> 0, json_ok |-> TRUE, data |-> <<>>]}
    \cup {[transport |-> "ok", status |-> st, json_ok |-> TRUE, data |-> <<>>] :
            st \in ErrorStatuses}
    \cup {[transport |-> "ok", status |-> 200, json_ok |-> FALSE, data |-> <<>>]}
    \cup {[transport |-> "ok", status |-> 200, json_ok |-> TRUE, data |-> d] :
            d \in SeqUpTo(ProviderValues(db), MaxRecords)}

\* no requests.get was made
NoResponse == [transport |-> "none", status |-> 0, json_ok |-> TRUE, data |-> <<>>]

\* st.error / st.warning / st.success
Message(level, kind, detail) == [level |-> level, kind |-> kind, detail |-> detail]

----------------------------------------------------------------------------
(* Fetchers.  Each returns the DataFrame, the messages it wrote and the GET  *)
(* requests it issued.                                                       *)

\* the keys the loop of retrieve_ppi_biogrid reads from each value
BioGridRead == {"OFFICIAL_SYMBOL_A", "OFFICIAL_SYMBOL_B", "EXPERIMENTAL_SYSTEM"}

\* the dict appended for one BioGRID value
biogrid_row(value) ==
    [Protein_A |-> value["OFFICIAL_SYMBOL_A"],
     Protein_B |-> value["OFFICIAL_SYMBOL_B"],
     Experimental_System |-> value["EXPERIMENTAL_SYSTEM"]]

\* the dict appended for one STRING interaction
string_row(interaction) ==
    [Protein_A |-> interaction["preferredName_A"],
     Protein_B |-> interaction["preferredName_B"],
     Score |-> interaction["score"]]

\* the body of the try block after requests.get returned: the DataFrame, or
\* the exception raised (JSONDecodeError by response.json(), KeyError by a
\* value[...] of the loop)
biogrid_parse(resp) ==
    IF resp.status # 200 THEN [raised |-> "none", df |-> EmptyDataFrame]
    ELSE IF ~resp.json_ok THEN [raised |-> "JSONDecodeError", df |-> EmptyDataFrame]
    ELSE IF resp.data = <<>> THEN [raised |-> "none", df |-> EmptyDataFrame]
    ELSE IF \E i \in 1..Len(resp.data) : ~(BioGridRead \subseteq DOMAIN resp.data[i])
         THEN [raised |-> "KeyError", df |-> EmptyDataFrame]
    ELSE [raised |-> "none",
          df |-> DataFrame([i \in 1..Len(resp.data) |-> biogrid_row(resp.data[i])])]

string_parse(resp) ==
    IF resp.status # 200 THEN [raised |-> "none", df |-> EmptyDataFrame]
    ELSE IF ~resp.json_ok THEN [raised |-> "JSONDecodeError", df |-> EmptyDataFrame]
    ELSE IF resp.data = <<>> THEN [raised |-> "none", df |-> EmptyDataFrame]
    ELSE [raised |-> "none",
          df |-> DataFrame([i \in 1..Len(resp.data) |-> string_row(resp.data[i])])]

\* dict.get(key, default)
Get(d, key, default) == IF key \in DOMAIN d THEN d[key] ELSE default

\* the except clause: st.error(f"Error: {str(e)}")
except_messages(raised) ==
    IF raised = "none" THEN <<>>
    ELSE <<Message("error", "fetch_exception", raised)>>

retrieve_ppi_biogrid(target_protein, ss, resp) ==
    LET request == [url |-> "https://webservice.thebiogrid.org/interactions",
                    params |-> [accessKey |-> Get(ss, "biogrid_key", ""),
                                geneList |-> target_protein,
                                organism |-> Get(ss, "organism_id", "9606")]]
        parsed == IF resp.transport # "ok"
                  THEN [raised |-> resp.transport, df |-> EmptyDataFrame]
                  ELSE biogrid_parse(resp)
    IN  [df |-> parsed.df,
         messages |-> except_messages(parsed.raised),
         gets |-> <<request>>,
         response |-> resp]

retrieve_ppi_string(target_protein, ss, resp) ==
    LET request == [url |-> "https://string-db.org/api/json/network",
                    params |-> [identifiers |-> target_protein,
                                species |-> Get(ss, "species_id", "9606"),
                                limit |-> Get(ss, "max_interactions", 20)]]
        parsed == IF resp.transport # "ok"
                  THEN [raised |-> resp.transport, df |-> EmptyDataFrame]
                  ELSE string_parse(resp)
    IN  [df |-> parsed.df,
         messages |-> except_messages(parsed.raised),
         gets |-> <<request>>,
         response |-> resp]

----------------------------------------------------------------------------
(* The script *)

\* the check of line 139 made for the wrong database
credential_missing_wrong_database(db, key) == db = "STRING" /\ key = ""

\* line 139: database == "BioGRID" and not access_key
credential_missing(db, key) == db = "BioGRID" /\ key = ""

\* line 141: not protein_id
protein_id_missing(pid) == pid = ""

\* line 150: not df_ppi.empty
df_not_empty(df) == Len(df.rows) > 0

\* what a run of the script renders below the button
NoOutput ==
    [messages |-> <<>>, gets |-> <<>>, response |-> NoResponse,
     df |-> EmptyDataFrame, network |-> EmptyGraph,
     centralities |-> <<>>, top5 |-> <<>>, sorted |-> <<>>, hubs |-> <<>>,
     uncaught |-> "none", calls |-> <<>>]

\* lines 145-148: the fetcher of the chosen database
fetch(db, pid, ss, resp) ==
    IF db = "BioGRID" THEN retrieve_ppi_biogrid(pid, ss, resp)
    ELSE retrieve_ppi_string(pid, ss, resp)

fetcher_name(db) ==
    IF db = "BioGRID" THEN "retrieve_ppi_biogrid" ELSE "retrieve_ppi_string"

\* lines 156-269: the centralities and what is displayed of them.  The degree
\* dictionary feeds the hub list (line 178) and the first iteration of the
\* display loop (lines 235-236 and 266-269).
analyze(out, eigen) ==
    LET cents == get_centralities(out.network, eigen)
        calls == out.calls \o <<"get_centralities">>
    IN  IF cents.raised # "none"
        THEN [out EXCEPT !.uncaught = cents.raised, !.calls = calls]
        ELSE [out EXCEPT !.centralities = cents.value,
                         !.top5 = ranked_top5(cents.value[1]),
                         !.sorted = ranked_top10(cents.value[1]),
                         !.hubs = Slice(ranked_top10(cents.value[1]), TopHubs),
                         !.calls = calls]

\* lines 150-273: after the fetch
after_fetch(got, db, eigen) ==
    LET fetched == [NoOutput EXCEPT !.messages = got.messages, !.gets = got.gets,
                                    !.response = got.response,
                                    !.df = got.df, !.calls = <<fetcher_name(db)>>]
    IN  IF df_not_empty(got.df)
        THEN LET G == generate_network(got.df)
                 built == [fetched EXCEPT
                             !.messages = Append(@, Message("success", "found_interactions",
                                                            Len(got.df.rows))),
                             !.network = G,
                             !.calls = Append(@, "generate_network")]
             IN  IF number_of_nodes(G) > 0
                 THEN analyze(built, eigen)
                 ELSE [built EXCEPT !.messages =
                         Append(@, Message("warning", "network_empty", ""))]
        ELSE [fetched EXCEPT !.messages =
                Append(@, Message("error", "no_interactions", ""))]

\* lines 138-273: the body of `if st.button("Analyze Network")`
analyze_network(db, key, pid, ss, resp, eigen) ==
    IF credential_missing(db, key)
    THEN [NoOutput EXCEPT !.messages = <<Message("error", "missing_access_key", "")>>]
    ELSE IF protein_id_missing(pid)
    THEN [NoOutput EXCEPT !.messages = <<Message("error", "missing_protein_id", "")>>]
    ELSE after_fetch(fetch(db, pid, ss, resp), db, eigen)

\* lines 120-134: the widgets below the database choice write the session state
write_session_state(ss, db, key) ==
    IF db = "BioGRID"
    THEN Put(Put(ss, "biogrid_key", key), "organism_id", "9606")
    ELSE Put(Put(ss, "species_id", "9606"), "max_interactions", 20)

Render(out) ==
    /\ st_messages' = out.messages
    /\ http_log' = out.gets
    /\ response' = out.response
    /\ df_ppi' = out.df
    /\ network' = out.network
    /\ centralities_list' = out.centralities
    /\ top_5_nodes' = out.top5
    /\ sorted_cent' = out.sorted
    /\ hub_lines' = out.hubs
    /\ uncaught' = out.uncaught
    /\ call_log' = out.calls

\* the first run of the script: default widgets, the button not clicked
InitWidgets ==
    /\ protein_id = ""
    /\ database = "BioGRID"
    /\ access_key = ""
    /\ session_state = write_session_state([k \in {} |-> ""], "BioGRID", "")
    /\ st_messages = <<>>
    /\ http_log = <<>>
    /\ response = NoResponse

Init ==
    /\ InitWidgets
    /\ df_ppi = EmptyDataFrame
    /\ network = EmptyGraph
    /\ centralities_list = <<>>
    /\ top_5_nodes = <<>>
    /\ cent_dict = <<>>
    /\ loop_i = 0
    /\ sorted_cent = <<>>
    /\ hub_lines = <<>>
    /\ uncaught = "none"
    /\ call_log = <<>>
    /\ pc = "idle"

\* the user edits the protein identifier: the script reruns, the button is not
\* clicked and nothing is rendered below it
SetProteinId(v) ==
    /\ v # protein_id
    /\ protein_id' = v
    /\ session_state' = write_session_state(session_state, database, access_key)
    /\ Render(NoOutput)
    /\ pc' = "idle"
    /\ UNCHANGED <<database, access_key, cent_dict, loop_i>>

\* the user picks the other database: the access key input is rendered anew
\* (empty) under BioGRID and not at all under STRING
SelectDatabase(d) ==
    /\ d # database
    /\ database' = d
    /\ access_key' = ""
    /\ session_state' = write_session_state(session_state, d, "")
    /\ Render(NoOutput)
    /\ pc' = "idle"
    /\ UNCHANGED <<protein_id, cent_dict, loop_i>>

\* the user edits the access key (the input exists under BioGRID only)
SetAccessKey(k) ==
    /\ database = "BioGRID"
    /\ k # access_key
    /\ access_key' = k
    /\ session_state' = write_session_state(session_state, database, k)
    /\ Render(NoOutput)
    /\ pc' = "idle"
    /\ UNCHANGED <<protein_id, database, cent_dict, loop_i>>

\* the user clicks "Analyze Network": the script reruns with the button set,
\* the provider answers resp and the eigenvector iteration ends as eigen
AnalyzeNetwork(resp, eigen) ==
    /\ session_state' = write_session_state(session_state, database, access_key)
    /\ \E out \in {analyze_network(database, access_key, protein_id, session_state',
                                   resp, eigen)} : Render(out)
    /\ pc' = "done"
    /\ UNCHANGED <<protein_id, database, access_key, cent_dict, loop_i>>

Next ==
    \/ \E v \in ProteinIds : SetProteinId(v)
    \/ \E d \in {"BioGRID", "STRING"} : SelectDatabase(d)
    \/ \E k \in AccessKeys : SetAccessKey(k)
    \/ \E resp \in Responses(database), eigen \in EigenOutcomes :
          AnalyzeNetwork(resp, eigen)

Spec == Init /\ [][Next]_vars

----------------------------------------------------------------------------
(* SpecBuild: generate_network and nx.degree_centrality on any DataFrame of  *)
(* at most MaxRows rows, in either fetcher's column layout                   *)

BioGridRows ==
    {[Protein_A |-> a, Protein_B |-> b, Experimental_System |-> "Two-hybrid"] :
        a \in Proteins, b \in Proteins}

StringRows ==
    {[Protein_A |-> a, Protein_B |-> b, Score |-> sc] :
        a \in Proteins, b \in Proteins, sc \in StringScores}

DataFrames ==
    {DataFrame(rows) : rows \in SeqUpTo(BioGridRows, MaxRows) \cup SeqUpTo(StringRows, MaxRows)}

InitBuild ==
    /\ InitWidgets
    /\ df_ppi \in DataFrames
    /\ network = EmptyGraph
    /\ centralities_list = <<>>
    /\ top_5_nodes = <<>>
    /\ cent_dict = <<>>
    /\ loop_i = 0
    /\ sorted_cent = <<>>
    /\ hub_lines = <<>>
    /\ uncaught = "none"
    /\ call_log = <<>>
    /\ pc = "idle"

\* line 153: network = generate_network(df_ppi)
BuildNetwork ==
    /\ pc = "idle"
    /\ network' = generate_network(df_ppi)
    /\ call_log' = Append(call_log, "generate_network")
    /\ pc' = "built"
    /\ UNCHANGED <<protein_id, database, access_key, session_state, st_messages,
                   http_log, response, df_ppi, centralities_list, top_5_nodes, cent_dict,
                   loop_i, sorted_cent, hub_lines, uncaught>>

\* lines 155-156 and 100: the degree centrality of a graph with nodes
ComputeDegreeCentrality ==
    /\ pc = "built"
    /\ number_of_nodes(network) > 0
    /\ centralities_list' = <<degree_centrality(network)>>
    /\ call_log' = Append(call_log, "get_centralities")
    /\ pc' = "done"
    /\ UNCHANGED <<protein_id, database, access_key, session_state, st_messages,
                   http_log, response, df_ppi, network, top_5_nodes, cent_dict, loop_i,
                   sorted_cent, hub_lines, uncaught>>

NextBuild == BuildNetwork \/ ComputeDegreeCentrality

SpecBuild == InitBuild /\ [][NextBuild]_vars

----------------------------------------------------------------------------
(* SpecRank: the ranking of lines 177-179 and 235-269 on any score           *)
(* dictionary of at most MaxRankNodes nodes.  Node k stands for the k-th key *)
(* of the dictionary; loop_i is the measure's index in centralities_list.    *)

ScoreDicts ==
    UNION {{[k \in 1..n |-> <<k, <<sc[k], 1>> >>] : sc \in [1..n -> ScoreValues]} :
             n \in 1..MaxRankNodes}

InitRank ==
    /\ InitWidgets
    /\ df_ppi = EmptyDataFrame
    /\ network = EmptyGraph
    /\ centralities_list = <<>>
    /\ top_5_nodes = <<>>
    /\ cent_dict \in ScoreDicts
    /\ loop_i \in 0..4
    /\ sorted_cent = <<>>
    /\ hub_lines = <<>>
    /\ uncaught = "none"
    /\ call_log = <<>>
    /\ pc = "idle"

\* lines 177-179: the hub list, of the degree dictionary (index 0)
RankHubs ==
    /\ pc = "idle"
    /\ loop_i = 0
    /\ top_5_nodes' = ranked_top5(cent_dict)
    /\ pc' = "hubs"
    /\ UNCHANGED <<protein_id, database, access_key, session_state, st_messages,
                   http_log, response, df_ppi, network, centralities_list, cent_dict, loop_i,
                   sorted_cent, hub_lines, uncaught, call_log>>

\* lines 235-269: one iteration of the display loop
DisplayLoopBody ==
    /\ pc \in {"idle", "hubs"}
    /\ sorted_cent' = ranked_top10(cent_dict)
    /\ hub_lines' = IF loop_i = 0 THEN Slice(sorted_cent', TopHubs) ELSE <<>>
    /\ pc' = "done"
    /\ UNCHANGED <<protein_id, database, access_key, session_state, st_messages,
                   http_log, response, df_ppi, network, centralities_list, top_5_nodes,
                   cent_dict, loop_i, uncaught, call_log>>

NextRank == RankHubs \/ DisplayLoopBody

SpecRank == InitRank /\ [][NextRank]_vars

----------------------------------------------------------------------------
(* Properties of the button handler (Spec) *)

MessageKinds == {st_messages[i].kind : i \in 1..Len(st_messages)}

Called(f) == f \in Range(call_log)

\* a run of the handler has completed and its output is on screen
RunDone == pc = "done"

\* C1: a click with provider BioGRID and an empty access key shows the
\* missing-credential error and issues no HTTP GET, whatever the identifier.
C1_CredentialCheckPrecedesGet ==
    (RunDone /\ database = "BioGRID" /\ access_key = "")
        => /\ st_messages = <<Message("error", "missing_access_key", "")>>
           /\ http_log = <<>>
           /\ response = NoResponse

C1_Witness ==
    /\ RunDone /\ database = "BioGRID" /\ access_key = "" /\ protein_id # ""
    /\ "missing_access_key" \in MessageKinds

\* the fetch of the last run failed in transport: an exception of requests.get
\* or a status other than 200
TransportFailed ==
    /\ response # NoResponse
    /\ (response.transport # "ok" \/ response.status # 200)

\* C2: each fetch issues exactly one GET and, on a non-200 status as on an
\* exception, signals a fetch failure to the user and returns an empty result.
C2_FetchFailureSignalled ==
    (RunDone /\ response # NoResponse)
        => /\ Len(http_log) = 1
           /\ TransportFailed =>
                /\ "fetch_exception" \in MessageKinds
                /\ ~df_not_empty(df_ppi)

\* the provider answered 200 with a well-formed empty body
EmptyBody ==
    /\ response.transport = "ok" /\ response.status = 200
    /\ response.json_ok /\ response.data = <<>>

\* C3: a 200 answer with an empty body ends in the empty-result outcome, shown
\* as a warning and not as an error, with no graph built and no centrality
\* computed.
C3_EmptyResultIsWarning ==
    (RunDone /\ EmptyBody)
        => /\ st_messages = <<Message("warning", "no_interactions", "")>>
           /\ ~Called("generate_network")
           /\ ~Called("get_centralities")

\* the four outcomes of a click
OutcomeKinds ==
    {"found_interactions", "no_interactions", "missing_access_key",
     "missing_protein_id", "fetch_exception"}

\* C4: every click shows exactly one outcome message: the success count, no
\* interactions found, a missing credential or identifier, or a transport error.
C4_ExactlyOneOutcome ==
    RunDone => /\ Len(st_messages) = 1
               /\ st_messages[1].kind \in OutcomeKinds

\* the eigenvector iteration of the last run did not converge
EigenvectorFailed ==
    RunDone /\ Called("get_centralities") /\ centralities_list = <<>>

\* C8: a convergence failure of the eigenvector centrality is caught and shown
\* to the user; it never leaves the handler as an unhandled exception.
C8_ConvergenceFailureCaught ==
    EigenvectorFailed
        => /\ uncaught = "none"
           /\ "convergence_failure" \in MessageKinds

\* str.upper on the symbols of the model
Upper(s) == IF s = "tp53" THEN "TP53" ELSE s

\* BioGRID answered 200 with values that all hold both symbols
BioGridRecords ==
    /\ RunDone /\ database = "BioGRID"
    /\ response.transport = "ok" /\ response.status = 200 /\ response.json_ok
    /\ response.data # <<>>
    /\ \A i \in 1..Len(response.data) :
         {"OFFICIAL_SYMBOL_A", "OFFICIAL_SYMBOL_B"} \subseteq DOMAIN response.data[i]

\* C9: each BioGRID value with both symbols yields one record whose names are
\* the uppercased symbols, whether or not it has EXPERIMENTAL_SYSTEM; a value
\* without it does not make the fetch fail or come back empty.
C9_BioGridRecordsUppercased ==
    BioGridRecords
        => /\ "fetch_exception" \notin MessageKinds
           /\ Len(df_ppi.rows) = Len(response.data)
           /\ \A i \in 1..Len(response.data) :
                /\ df_ppi.rows[i]["Protein_A"] = Upper(response.data[i]["OFFICIAL_SYMBOL_A"])
                /\ df_ppi.rows[i]["Protein_B"] = Upper(response.data[i]["OFFICIAL_SYMBOL_B"])

\* C10: a non-empty record list always gives a graph with a node, so the run
\* goes on to the centralities; the "Network is empty" warning is never shown.
C10_EmptyGraphUnreachable ==
    /\ "network_empty" \notin MessageKinds
    /\ (RunDone /\ df_not_empty(df_ppi))
          => /\ Called("generate_network")
             /\ number_of_nodes(network) > 0
             /\ Called("get_centralities")

\* a fetched list of one self-referential pair: the smallest graph
C10_Witness ==
    /\ RunDone /\ df_not_empty(df_ppi)
    /\ number_of_nodes(network) = 1
    /\ Called("get_centralities")

----------------------------------------------------------------------------
(* Properties of the graph builder and the degree centrality (SpecBuild) *)

\* the endpoint names of a DataFrame's rows
Endpoints(df) ==
    {df.rows[i]["Protein_A"] : i \in 1..Len(df.rows)}
      \cup {df.rows[i]["Protein_B"] : i \in 1..Len(df.rows)}

\* some row connects a and b, in either order
Connects(df, a, b) ==
    \E i \in 1..Len(df.rows) :
        \/ df.rows[i]["Protein_A"] = a /\ df.rows[i]["Protein_B"] = b
        \/ df.rows[i]["Protein_A"] = b /\ df.rows[i]["Protein_B"] = a

\* the unordered pairs the rows connect
ConnectedPairs(df) ==
    {{df.rows[i]["Protein_A"], df.rows[i]["Protein_B"]} : i \in 1..Len(df.rows)}

\* G.has_edge(u, v)
has_edge(G, u, v) == u \in DOMAIN G.adj /\ v \in DOMAIN G.adj[u]

GraphBuilt == pc \in {"built", "done"}

\* C5: the graph's nodes are the distinct endpoint names of the rows, an edge
\* joins a and b exactly when some row connects them (in either order), each
\* connected pair is one edge, and no edge stores an attribute.
C5_GraphMatchesRecords ==
    GraphBuilt
        => /\ NodeSet(network) = Endpoints(df_ppi)
           /\ Len(network.nodes) = Cardinality(NodeSet(network))
           /\ DOMAIN network.adj = NodeSet(network)
           /\ \A a, b \in Proteins : has_edge(network, a, b) <=> Connects(df_ppi, a, b)
           /\ number_of_edges(network) = Cardinality(ConnectedPairs(df_ppi))
           /\ \A a \in DOMAIN network.adj : \A b \in DOMAIN network.adj[a] :
                network.adj[a][b] = {}

\* rows with a Score column holding a pair, its reverse and a self-referential
\* pair
C5_Witness ==
    /\ pc = "built"
    /\ "Score" \in df_ppi.columns
    /\ \E i, j, k \in 1..Len(df_ppi.rows) :
         /\ df_ppi.rows[i]["Protein_A"] # df_ppi.rows[i]["Protein_B"]
         /\ df_ppi.rows[j]["Protein_A"] = df_ppi.rows[i]["Protein_B"]
         /\ df_ppi.rows[j]["Protein_B"] = df_ppi.rows[i]["Protein_A"]
         /\ df_ppi.rows[k]["Protein_A"] = df_ppi.rows[k]["Protein_B"]
    /\ number_of_edges(network) = 2

\* the degree of v read off the rows: its distinct other partners, and 2 for a
\* self-referential row
RowDegree(df, v) ==
    Cardinality({w \in Endpoints(df) \ {v} : Connects(df, v, w)})
      + (IF Connects(df, v, v) THEN 2 ELSE 0)

DegreeComputed == pc = "done" /\ Len(centralities_list) = 1

\* C6 as stated: every node's degree centrality lies in [0, 1].
C6_DegreeCentralityInUnitInterval ==
    DegreeComputed
        => \A i \in 1..Len(centralities_list[1]) :
             /\ 0 <= centralities_list[1][i][2][1]
             /\ centralities_list[1][i][2][1] <= centralities_list[1][i][2][2]

\* C6 amended: the degree centrality of node v is degree(v) / (N - 1), a
\* self-loop adding 2 to the degree (and is 1 when N = 1); it lies in [0, 1]
\* for a node without a self-loop and in [0, (N + 1) / (N - 1)] for a node with
\* one.
C6_DegreeCentralityBound ==
    DegreeComputed
        => LET N == number_of_nodes(network)
               c == centralities_list[1]
           IN  /\ Len(c) = N
               /\ \A i \in 1..Len(c) :
                    LET v == network.nodes[i]
                        num == c[i][2][1]
                        den == c[i][2][2]
                    IN  /\ c[i][1] = v
                        /\ IF N = 1 THEN num = 1 /\ den = 1
                           ELSE /\ num = RowDegree(df_ppi, v)
                                /\ den = N - 1
                                /\ 0 <= num
                                /\ ~Connects(df_ppi, v, v) => num <= N - 1
                                /\ Connects(df_ppi, v, v) => num <= N + 1

\* a node with a self-loop and every other node as neighbour: centrality
\* (N + 1) / (N - 1)
C6_Witness ==
    /\ DegreeComputed
    /\ number_of_nodes(network) > 1
    /\ \E i \in 1..Len(centralities_list[1]) :
         centralities_list[1][i][2][1] = number_of_nodes(network) + 1

----------------------------------------------------------------------------
(* Properties of the ranking (SpecRank) *)

SortedNonIncreasing(list) ==
    \A i \in 1..(Len(list) - 1) : ScoreGeq(list[i][2], list[i + 1][2])

\* list holds the k best-scored items of dict (all of them if there are fewer)
IsRankedPrefix(list, dict, k) ==
    /\ Len(list) = Min(Len(dict), k)
    /\ SortedNonIncreasing(list)
    /\ Range(list) \subseteq Range(dict)
    /\ Cardinality(Range(list)) = Len(list)
    /\ \A item \in Range(dict) \ Range(list) :
         \A i \in 1..Len(list) : ScoreGeq(list[i][2], item[2])

\* C7 as stated: the ranked list of a measure has one entry per node and is
\* sorted non-increasing by score.
C7_RankedLengthIsNodeCount ==
    pc = "done"
        => /\ Len(sorted_cent) = Len(cent_dict)
           /\ SortedNonIncreasing(sorted_cent)

\* C7 amended: the ranked list of a measure holds the min(N, 10) best-scored
\* nodes (the hub list the min(N, 5) best by degree), sorted non-increasing by
\* score.
C7_RankedListsSortedAndTruncated ==
    /\ pc = "done" => IsRankedPrefix(sorted_cent, cent_dict, TopDisplay)
    /\ pc = "hubs" => IsRankedPrefix(top_5_nodes, cent_dict, TopHubs)
    /\ (pc = "done" /\ loop_i = 0) => hub_lines = Slice(sorted_cent, TopHubs)

\* more than ten nodes, given in an order that is not the ranked one
C7_Witness ==
    /\ pc = "done"
    /\ Len(cent_dict) > TopDisplay
    /\ ~SortedNonIncreasing(cent_dict)
    /\ Len(sorted_cent) = TopDisplay

====
